---- MODULE Spec2Model ----
(***************************************************************************)
(* A model of balancier.py: the entity model (Bank, Facility, Covenant,    *)
(* Loan), Balancier.normalize_data and Balancier.make_assignments.         *)
(*                                                                         *)
(* Numbers.  Loan and facility amounts are whole currency units.  Rates    *)
(* and default likelihoods are held in hundredths (0.05 is 5).  A yield    *)
(* is held in ten-thousandths of a currency unit, so that the yield        *)
(* formula of calculate_yield_for_loan is computed exactly.                *)
(*                                                                         *)
(* Strings.  read_data hands every CSV field to the constructors as a      *)
(* str.  Loan and Facility convert their numeric fields with float();      *)
(* Covenant converts nothing, so a covenant's max_default_likelihood, and  *)
(* every bank or facility max_default_likelihood copied from it, is a      *)
(* str for the whole run.  Such a str is a sequence of one-character       *)
(* strings here, <<"0", ".", "1">> for '0.1', compared as Python compares  *)
(* str values (lexicographically by code point).                           *)
(*                                                                         *)
(* None.  None and the empty CSV field '' are both falsy; an attribute     *)
(* that is None or a non-empty str is the empty sequence or a non-empty    *)
(* one.  A reference that is None is 0; entities are named by their        *)
(* position in their list, which is also their id.                         *)
(*                                                                         *)
(* Interpreter.  The script runs under `python` (line 1).  Comparing a     *)
(* float with None or with a str is defined by Python 2 (None is below     *)
(* every number, every number is below every str) and raises TypeError     *)
(* under Python 3.  The interpreter is not fixed by the repository, so     *)
(* the model keeps both: py is "unknown" until the first such comparison   *)
(* and 2 or 3 from then on.                                                *)
(***************************************************************************)
EXTENDS Integers, Sequences, FiniteSets, TLC

VARIABLES
    py,                 \* "unknown", "2" or "3": the interpreter, once it shows
    pc,                 \* position of the main program (lines 251-258)
    banks,              \* Balancier.banks
    facilities,         \* Balancier.facilities
    covenants,          \* Balancier.covenants
    loans,              \* Balancier.loans
    bank_table,         \* keys of Balancier.bank_table
    facility_table,     \* keys of Balancier.facility_table
    i,                  \* index of the item the running loop is at
    j,                  \* index of the facility Loan.assign is at
    max_yield,          \* local of Loan.assign
    selected_facility,  \* local of Loan.assign
    initial_amount      \* history: each facility's amount as constructed

vars == <<py, pc, banks, facilities, covenants, loans, bank_table,
          facility_table, i, j, max_yield, selected_facility, initial_amount>>

----------------------------------------------------------------------------
(* Bounds of the model. *)

MaxFacilities == 2
MaxCovenants == 2
MaxLoans == 2
MaxTieFacilities == 3

----------------------------------------------------------------------------
(* Python values. *)

None == <<>>

Truthy(v) == v # <<>>

Some(n) == <<n>>

\* Characters of the numeric strings, in code point order ('.' is 46, the
\* digits are 48..57).
Chars == <<".", "0", "1", "2", "3", "4", "5", "6", "7", "8", "9">>

Ord(c) == CHOOSE k \in 1..Len(Chars) : Chars[k] = c

\* str < str: the first differing character decides, a proper prefix is less.
RECURSIVE StrLess(_, _)
StrLess(a, b) ==
    IF b = <<>> THEN FALSE
    ELSE IF a = <<>> THEN TRUE
    ELSE IF Head(a) # Head(b) THEN Ord(Head(a)) < Ord(Head(b))
    ELSE StrLess(Tail(a), Tail(b))

\* min(a, b) of two str: a unless b < a.
StrMin(a, b) == IF StrLess(b, a) THEN b ELSE a

\* float(s) for a decimal literal s without exponent, in hundredths.
RECURSIVE DigitsValue(_)
DigitsValue(s) ==
    IF s = <<>> THEN 0
    ELSE 10 * DigitsValue(SubSeq(s, 1, Len(s) - 1)) + (Ord(s[Len(s)]) - 2)

DotAt(s) ==
    IF \E k \in 1..Len(s) : s[k] = "."
    THEN CHOOSE k \in 1..Len(s) : s[k] = "."
    ELSE Len(s) + 1

ParseFloat(s) ==
    LET d == DotAt(s)
        frac == SubSeq(s, d + 1, Len(s))
        tenths == IF Len(frac) >= 1 THEN Ord(frac[1]) - 2 ELSE 0
        hundredths == IF Len(frac) >= 2 THEN Ord(frac[2]) - 2 ELSE 0
    IN  100 * DigitsValue(SubSeq(s, 1, d - 1)) + 10 * tenths + hundredths

----------------------------------------------------------------------------
(* Entities as their constructors leave them. *)

\* Bank.__init__
NewBank ==
    [facilities |-> <<>>, banned_states |-> <<>>, max_default_likelihood |-> None]

\* Facility.__init__ on a row bank_id, amount, interest_rate
NewFacility(bank_id, amount, interest_rate) ==
    [bank_id |-> bank_id, amount |-> amount, interest_rate |-> interest_rate,
     bank |-> 0, banned_states |-> <<>>, max_default_likelihood |-> None,
     assigned_loans |-> <<>>]

\* Covenant.__init__ on a row bank_id, facility_id, banned_state,
\* max_default_likelihood; facility_id 0 and banned_state "" are the empty
\* field.
NewCovenant(bank_id, facility_id, banned_state, max_default_likelihood) ==
    [bank_id |-> bank_id, facility_id |-> facility_id,
     banned_state |-> banned_state,
     max_default_likelihood |-> max_default_likelihood,
     bank |-> 0, facility |-> 0]

\* Loan.__init__ on a row amount, default_likelihood, interest_rate, state
NewLoan(amount, default_likelihood, interest_rate, state) ==
    [amount |-> amount, default_likelihood |-> default_likelihood,
     interest_rate |-> interest_rate, state |-> state,
     assigned_facility |-> 0, expected_yield |-> None]

----------------------------------------------------------------------------
(* Facility: derived properties, validation, yield. *)

Elements(s) == {s[k] : k \in 1..Len(s)}

\* effective_banned_states returning the facility's own list alone
effective_banned_states_OwnOnly(f) ==
    facilities[f].banned_states

\* Facility.effective_banned_states of facility f
effective_banned_states(f) ==
    facilities[f].banned_states \o banks[facilities[f].bank].banned_states

\* Facility.effective_max_default_likelihood of facility f
effective_max_default_likelihood(f) ==
    LET own == facilities[f].max_default_likelihood
        parent == banks[facilities[f].bank].max_default_likelihood
    IN  IF Truthy(parent) /\ Truthy(own) THEN StrMin(own, parent)
        ELSE IF Truthy(parent) THEN parent
        ELSE own

\* The interpreters a step may run under: both until one has shown.
Interpreters == IF py = "unknown" THEN {"2", "3"} ELSE {py}

\* loan.default_likelihood > cap, where cap is None or a str (line 55).
\* Python 2 orders None below every float and every float below every str;
\* Python 3 raises TypeError for both.
ExceedsCap(default_likelihood, cap, interp) ==
    IF interp = "3" THEN "TypeError"
    ELSE IF cap = None THEN "True"
    ELSE "False"

\* validate_loan without the funds test of lines 61-66
validate_loan_NoFundsCheck(loan, f, interp) ==
    IF loan.state \in Elements(effective_banned_states(f)) THEN "False"
    ELSE LET over == ExceedsCap(loan.default_likelihood,
                                effective_max_default_likelihood(f), interp)
         IN  IF over = "TypeError" THEN "TypeError"
             ELSE IF over = "True" THEN "False"
             ELSE "True"

\* Facility.validate_loan: "True", "False", or "TypeError" when line 55 raises
validate_loan(loan, f, interp) ==
    IF loan.state \in Elements(effective_banned_states(f)) THEN "False"
    ELSE LET over == ExceedsCap(loan.default_likelihood,
                                effective_max_default_likelihood(f), interp)
         IN  IF over = "TypeError" THEN "TypeError"
             ELSE IF over = "True" THEN "False"
             ELSE IF loan.amount > facilities[f].amount THEN "False"
             ELSE "True"

\* Whether validate_loan reaches the comparison of line 55, which is where
\* the interpreter shows.
ReachesCapComparison(loan, f) ==
    loan.state \notin Elements(effective_banned_states(f))

\* calculate_yield_for_loan without the facility's cost of funds (line 76)
calculate_yield_for_loan_NoFundingCost(loan, f) ==
    (100 - loan.default_likelihood) * loan.interest_rate * loan.amount
        - loan.default_likelihood * loan.amount * 100

\* Facility.calculate_yield_for_loan, in ten-thousandths
calculate_yield_for_loan(loan, f) ==
    (100 - loan.default_likelihood) * loan.interest_rate * loan.amount
        - loan.default_likelihood * loan.amount * 100
        - facilities[f].interest_rate * loan.amount * 100

\* assign_loan without the decrement of line 96
assign_loan_facilities_NoDecrement(f, l) ==
    [facilities EXCEPT ![f].assigned_loans = Append(@, l)]

\* assign_loan with assigned_loans one list shared by every facility
assign_loan_facilities_SharedList(f, l) ==
    [g \in DOMAIN facilities |->
        IF g = f
        THEN [facilities[g] EXCEPT !.assigned_loans = Append(@, l),
                                   !.amount = @ - loans[l].amount]
        ELSE [facilities[g] EXCEPT !.assigned_loans = Append(@, l)]]

\* Facility.assign_loan: the facilities and the loans after it
assign_loan_facilities(f, l) ==
    [facilities EXCEPT ![f].assigned_loans = Append(@, l),
                       ![f].amount = @ - loans[l].amount]

\* assign_loan without the assignment of line 95
assign_loan_loans_NoYield(f, l, expected_yield) ==
    [loans EXCEPT ![l].assigned_facility = f]

\* assign_loan without the assignment of line 94
assign_loan_loans_NoBackReference(f, l, expected_yield) ==
    [loans EXCEPT ![l].expected_yield = expected_yield]

assign_loan_loans(f, l, expected_yield) ==
    [loans EXCEPT ![l].assigned_facility = f,
                  ![l].expected_yield = expected_yield]

----------------------------------------------------------------------------
(* Loan.assign: the test of line 144. *)

\* Line 144 testing the best yield for falsiness instead of the new one:
\* not max_yield or expected_yield > max_yield
IsNewBest_BestFalsy(expected_yield, best, interp) ==
    IF best = None \/ best = Some(0) THEN "True"
    ELSE IF expected_yield > best[1] THEN "True"
    ELSE "False"

\* not expected_yield or expected_yield > max_yield.  `or` evaluates the
\* comparison only when expected_yield is nonzero; against None it is True
\* under Python 2 and raises under Python 3.
IsNewBest(expected_yield, best, interp) ==
    IF expected_yield = 0 THEN "True"
    ELSE IF best = None
         THEN (IF interp = "2" THEN "True" ELSE "TypeError")
    ELSE IF expected_yield > best[1] THEN "True"
    ELSE "False"

----------------------------------------------------------------------------
(* Balancier.normalize_data: the update of lines 206-210. *)

\* The entity's max_default_likelihood after a covenant carrying value
UpdatedMaxDefaultLikelihood(current, value) ==
    IF current = None \/ StrLess(current, value) THEN value ELSE current

\* The entity's fields after the covenant (lines 204-210)
CovenantApplied(entity, covenant) ==
    LET banned == IF covenant.banned_state # ""
                  THEN Append(entity.banned_states, covenant.banned_state)
                  ELSE entity.banned_states
        cap == IF Truthy(covenant.max_default_likelihood)
               THEN UpdatedMaxDefaultLikelihood(entity.max_default_likelihood,
                                                covenant.max_default_likelihood)
               ELSE entity.max_default_likelihood
    IN  [entity EXCEPT !.banned_states = banned,
                       !.max_default_likelihood = cap]

----------------------------------------------------------------------------
(* The datasets read_data loads. *)

Lists(S, lo, hi) == UNION {[1..n -> S] : n \in lo..hi}

BankIds == {1, 2}

\* Datasets for the assignment phase: facilities of one bank that differ in
\* their cost of funds, loans that differ in amount and default likelihood,
\* a bank-level cap and a facility-level ban.
\* Bank 3 is in no banks row.
FacilityRows ==
    {NewFacility(1, 10, r) : r \in {3, 5, 7}} \cup {NewFacility(3, 10, 5)}

CovenantRows ==
    {NewCovenant(1, 0, "", <<"0", ".", "1">>), NewCovenant(1, 2, "NY", <<>>),
     NewCovenant(1, 1, "", <<"0", ".", "4">>)}

LoanRows ==
    {NewLoan(6, 0, 5, "NY"), NewLoan(5, 0, 5, "NY"), NewLoan(5, 30, 5, "NY"),
     NewLoan(5, 0, 5, "CA")}

\* Datasets for normalize_data: facilities of both banks, covenants on
\* either bank or on a facility, carrying a ban or a cap.
NormalizeFacilityRows ==
    {NewFacility(b, 10, 5) : b \in BankIds \cup {3}}

CovenantTargets ==
    {<<b, 0>> : b \in BankIds \cup {3}} \cup {<<1, f>> : f \in 1..MaxFacilities}

CovenantContents ==
    {<<"NY", <<>>>>, <<"", <<"0", ".", "1">>>>, <<"", <<"0", ".", "4">>>>,
     <<"", <<".", "5">>>>}

NormalizeCovenantRows ==
    {NewCovenant(t[1], t[2], c[1], c[2]) :
        t \in CovenantTargets, c \in CovenantContents}
    \cup {NewCovenant(2, 0, "CA", <<>>)}

NormalizeLoanRows ==
    {NewLoan(5, 30, 5, "NY")}

\* Balancier.__init__ and read_data: the state normalize_data starts from
Loaded(F, C, L) ==
    /\ py = "unknown"
    /\ pc = "normalize_banks"
    /\ banks = [b \in BankIds |-> NewBank]
    /\ facilities = F
    /\ covenants = C
    /\ loans = L
    /\ bank_table = {}
    /\ facility_table = {}
    /\ i = 1
    /\ j = 1
    /\ max_yield = None
    /\ selected_facility = 0
    /\ initial_amount = [f \in DOMAIN F |-> F[f].amount]

Init ==
    \E F \in Lists(FacilityRows, 1, MaxFacilities),
       C \in Lists(CovenantRows, 0, MaxCovenants),
       L \in Lists(LoanRows, 1, MaxLoans) : Loaded(F, C, L)

InitNormalize ==
    \E F \in Lists(NormalizeFacilityRows, 1, MaxFacilities),
       C \in Lists(NormalizeCovenantRows, 0, MaxCovenants),
       L \in Lists(NormalizeLoanRows, 1, 1) : Loaded(F, C, L)

\* One loan offered to up to MaxTieFacilities facilities
InitTies ==
    \E F \in Lists(FacilityRows, 1, MaxTieFacilities),
       C \in Lists(CovenantRows, 0, 1),
       L \in Lists(LoanRows, 1, 1) : Loaded(F, C, L)

----------------------------------------------------------------------------
(* Balancier.normalize_data *)

AfterCovenants == "assign"

AfterFacilities ==
    IF Len(covenants) > 0 THEN "normalize_covenants" ELSE AfterCovenants

\* lines 189-190: every loaded bank is indexed by its id
NormalizeBanks ==
    /\ pc = "normalize_banks"
    /\ bank_table' = DOMAIN banks
    /\ pc' = "normalize_facilities"
    /\ i' = 1
    /\ UNCHANGED <<py, banks, facilities, covenants, loans, facility_table,
                   j, max_yield, selected_facility, initial_amount>>

\* lines 192-195, one facility
NormalizeFacility ==
    /\ pc = "normalize_facilities"
    /\ i <= Len(facilities)
    /\ facilities[i].bank_id \in bank_table
    /\ facility_table' = facility_table \cup {i}
    /\ facilities' = [facilities EXCEPT ![i].bank = facilities[i].bank_id]
    /\ banks' = [banks EXCEPT ![facilities[i].bank_id].facilities = Append(@, i)]
    /\ IF i = Len(facilities)
       THEN pc' = AfterFacilities /\ i' = 1
       ELSE pc' = pc /\ i' = i + 1
    /\ UNCHANGED <<py, covenants, loans, bank_table, j, max_yield,
                   selected_facility, initial_amount>>

\* line 194: bank_table[facility.bank_id] raises KeyError
FacilityKeyError ==
    /\ pc = "normalize_facilities"
    /\ i <= Len(facilities)
    /\ facilities[i].bank_id \notin bank_table
    /\ facility_table' = facility_table \cup {i}
    /\ pc' = "KeyError"
    /\ UNCHANGED <<py, banks, facilities, covenants, loans, bank_table, i, j,
                   max_yield, selected_facility, initial_amount>>

\* The lookups of lines 198-200 with the facility lookup never failing
CovenantResolves_BankOnly(c) ==
    c.bank_id \in bank_table

\* lines 198-200: whether both lookups of covenant c succeed
CovenantResolves(c) ==
    /\ c.bank_id \in bank_table
    /\ c.facility_id # 0 => c.facility_id \in facility_table

\* lines 197-210 with line 203 reading `covenant.bank or covenant.facility`
NormalizeCovenant_AlwaysBank ==
    /\ pc = "normalize_covenants"
    /\ i <= Len(covenants)
    /\ CovenantResolves(covenants[i])
    /\ LET c == covenants[i]
       IN  /\ covenants' = [covenants EXCEPT ![i].bank = c.bank_id,
                                             ![i].facility = c.facility_id]
           /\ banks' = [banks EXCEPT ![c.bank_id] = CovenantApplied(@, c)]
           /\ facilities' = facilities
    /\ IF i = Len(covenants)
       THEN pc' = AfterCovenants /\ i' = 1
       ELSE pc' = pc /\ i' = i + 1
    /\ UNCHANGED <<py, loans, bank_table, facility_table, j, max_yield,
                   selected_facility, initial_amount>>

\* lines 197-210, one covenant
NormalizeCovenant ==
    /\ pc = "normalize_covenants"
    /\ i <= Len(covenants)
    /\ CovenantResolves(covenants[i])
    /\ LET c == covenants[i]
       IN  /\ covenants' = [covenants EXCEPT ![i].bank = c.bank_id,
                                             ![i].facility = c.facility_id]
           /\ IF c.facility_id # 0
              THEN /\ facilities' = [facilities EXCEPT ![c.facility_id] =
                                        CovenantApplied(@, c)]
                   /\ banks' = banks
              ELSE /\ banks' = [banks EXCEPT ![c.bank_id] =
                                        CovenantApplied(@, c)]
                   /\ facilities' = facilities
    /\ IF i = Len(covenants)
       THEN pc' = AfterCovenants /\ i' = 1
       ELSE pc' = pc /\ i' = i + 1
    /\ UNCHANGED <<py, loans, bank_table, facility_table, j, max_yield,
                   selected_facility, initial_amount>>

\* lines 198 and 200: a lookup raises KeyError
CovenantKeyError ==
    /\ pc = "normalize_covenants"
    /\ i <= Len(covenants)
    /\ ~CovenantResolves(covenants[i])
    /\ covenants' = [covenants EXCEPT ![i].bank =
                        IF covenants[i].bank_id \in bank_table
                        THEN covenants[i].bank_id ELSE 0]
    /\ pc' = "KeyError"
    /\ UNCHANGED <<py, banks, facilities, loans, bank_table, facility_table,
                   i, j, max_yield, selected_facility, initial_amount>>

----------------------------------------------------------------------------
(* Balancier.make_assignments and Loan.assign *)

\* lines 137-153, one facility of the scan of loan i, validate_loan having
\* returned
ScanFacility ==
    /\ pc = "assign"
    /\ j <= Len(facilities)
    /\ \E interp \in Interpreters :
         LET valid == validate_loan(loans[i], j, interp)
             expected_yield == calculate_yield_for_loan(loans[i], j)
             better == IsNewBest(expected_yield, max_yield, interp)
         IN  /\ valid # "TypeError"
             /\ valid = "True" => better # "TypeError"
             /\ py' = IF ReachesCapComparison(loans[i], j) THEN interp ELSE py
             /\ IF valid = "True" /\ better = "True"
                THEN /\ max_yield' = Some(expected_yield)
                     /\ selected_facility' = j
                ELSE UNCHANGED <<max_yield, selected_facility>>
    /\ j' = j + 1
    /\ UNCHANGED <<pc, banks, facilities, covenants, loans, bank_table,
                   facility_table, i, initial_amount>>

\* line 55 or line 144 raises TypeError
ScanTypeError ==
    /\ pc = "assign"
    /\ j <= Len(facilities)
    /\ \E interp \in Interpreters :
         LET valid == validate_loan(loans[i], j, interp)
             expected_yield == calculate_yield_for_loan(loans[i], j)
         IN  /\ \/ valid = "TypeError"
                \/ /\ valid = "True"
                   /\ IsNewBest(expected_yield, max_yield, interp) = "TypeError"
             /\ py' = interp
    /\ pc' = "TypeError"
    /\ UNCHANGED <<banks, facilities, covenants, loans, bank_table,
                   facility_table, i, j, max_yield, selected_facility,
                   initial_amount>>

\* make_assignments moves to the next loan, or returns
NextLoan ==
    /\ IF i = Len(loans) THEN pc' = "done" /\ i' = i ELSE pc' = pc /\ i' = i + 1
    /\ j' = 1
    /\ max_yield' = None
    /\ selected_facility' = 0

\* lines 154-156: no facility was selected
LeaveUnassigned ==
    /\ pc = "assign"
    /\ j = Len(facilities) + 1
    /\ selected_facility = 0
    /\ NextLoan
    /\ UNCHANGED <<py, banks, facilities, covenants, loans, bank_table,
                   facility_table, initial_amount>>

\* line 157: selected_facility.assign_loan(self, max_yield)
AssignLoan ==
    /\ pc = "assign"
    /\ j = Len(facilities) + 1
    /\ selected_facility # 0
    /\ facilities' = assign_loan_facilities(selected_facility, i)
    /\ loans' = assign_loan_loans(selected_facility, i, max_yield)
    /\ NextLoan
    /\ UNCHANGED <<py, banks, covenants, bank_table, facility_table,
                   initial_amount>>

----------------------------------------------------------------------------

Next ==
    \/ NormalizeBanks
    \/ NormalizeFacility
    \/ FacilityKeyError
    \/ NormalizeCovenant
    \/ CovenantKeyError
    \/ ScanFacility
    \/ ScanTypeError
    \/ LeaveUnassigned
    \/ AssignLoan

Spec == Init /\ [][Next]_vars

SpecNormalize == InitNormalize /\ [][Next]_vars

SpecTies == InitTies /\ [][Next]_vars

----------------------------------------------------------------------------
(* Notions the properties below are stated with. *)

\* normalize_data has returned
Normalized == pc \in {"assign", "done", "TypeError"}

\* Loan.assign has scanned every facility for loan i and is at line 154
AtDecision == pc = "assign" /\ j = Len(facilities) + 1

\* This step is the assign_loan of line 157 for loan i
IsAssignment ==
    /\ pc = "assign"
    /\ loans[i].assigned_facility = 0
    /\ loans'[i].assigned_facility # 0

\* This step is one iteration of the scan (lines 137-153) in which
\* validate_loan returned True for facility j
IsEligibleScanStep ==
    /\ pc = "assign"
    /\ j <= Len(facilities)
    /\ j' = j + 1
    /\ validate_loan(loans[i], j, "2") = "True"

\* The cap as a number, in hundredths
CapValue(cap) == ParseFloat(cap)

Min(S) == CHOOSE x \in S : \A y \in S : x <= y

RECURSIVE SumAmounts(_)
SumAmounts(ls) ==
    IF ls = <<>> THEN 0 ELSE loans[Head(ls)].amount + SumAmounts(Tail(ls))

\* Loans before position n that are assigned to facility f
AssignedBefore(n, f) ==
    {l \in 1..(n - 1) : loans[l].assigned_facility = f}

RECURSIVE SumAmountsOf(_)
SumAmountsOf(S) ==
    IF S = {} THEN 0
    ELSE LET l == CHOOSE x \in S : TRUE
         IN  loans[l].amount + SumAmountsOf(S \ {l})

----------------------------------------------------------------------------
(* C1 *)

\* C1: at the moment a loan is assigned to a facility, the loan's state is
\* not in the facility's effective banned states, its default likelihood does
\* not exceed the facility's effective max default likelihood, and its amount
\* is at most the facility's amount before the decrement.
C1_AssignedLoanWasEligible ==
    [][IsAssignment =>
        LET f == selected_facility
            loan == loans[i]
            cap == effective_max_default_likelihood(f)
        IN  /\ loan.state \notin Elements(effective_banned_states(f))
            /\ cap # None => loan.default_likelihood <= CapValue(cap)
            /\ loan.amount <= facilities[f].amount]_vars

----------------------------------------------------------------------------
(* C2 *)

\* C2: in every state, each facility's amount is its initial amount minus the
\* sum of the amounts of the loans in its assigned_loans, and is not negative.
C2_AmountIsInitialMinusAssigned ==
    \A f \in DOMAIN facilities :
        /\ facilities[f].amount =
               initial_amount[f] - SumAmounts(facilities[f].assigned_loans)
        /\ facilities[f].amount >= 0

\* A facility that two loans have used up entirely.
C2_Witness ==
    \E f \in DOMAIN facilities :
        /\ Len(facilities[f].assigned_loans) = 2
        /\ facilities[f].amount = 0
        /\ initial_amount[f] > 0

----------------------------------------------------------------------------
(* C3 *)

\* C3: the facility a loan is assigned to has the greatest expected yield
\* among the facilities that pass validate_loan for the loan when it is
\* processed.
C3_SelectedYieldIsMaximal ==
    (AtDecision /\ selected_facility # 0) =>
        \A f \in DOMAIN facilities :
            validate_loan(loans[i], f, py) = "True" =>
                calculate_yield_for_loan(loans[i], f)
                    <= calculate_yield_for_loan(loans[i], selected_facility)

----------------------------------------------------------------------------
(* C4 *)

\* The rule as the claim words it
C4_ClaimedRule(expected_yield, best) ==
    \/ best = None
    \/ (best # None /\ expected_yield > best[1])
    \/ (expected_yield # 0 /\ best = Some(0))

\* The rule of line 144 under Python 2
C4_AmendedRule(expected_yield, best) ==
    \/ expected_yield = 0
    \/ best = None
    \/ (best # None /\ expected_yield > best[1])

----------------------------------------------------------------------------
(* C5 *)

\* The caps carried by the covenants whose target is bank b, or facility f
BankCaps(b) ==
    {covenants[k].max_default_likelihood : k \in
        {n \in DOMAIN covenants :
            /\ covenants[n].facility_id = 0
            /\ covenants[n].bank_id = b
            /\ Truthy(covenants[n].max_default_likelihood)}}

FacilityCaps(f) ==
    {covenants[k].max_default_likelihood : k \in
        {n \in DOMAIN covenants :
            /\ covenants[n].facility_id = f
            /\ Truthy(covenants[n].max_default_likelihood)}}

CapIsMinimumOf(cap, S) ==
    IF S = {} THEN cap = None
    ELSE cap # None /\ CapValue(cap) = Min({CapValue(v) : v \in S})

\* C5: after normalize_data, the max_default_likelihood of every bank and
\* facility is the minimum of the values of the covenants that target it, and
\* is unset when no covenant with a value targets it.
C5_CapIsMinimumOfCovenants ==
    Normalized =>
        /\ \A b \in DOMAIN banks :
               CapIsMinimumOf(banks[b].max_default_likelihood, BankCaps(b))
        /\ \A f \in DOMAIN facilities :
               CapIsMinimumOf(facilities[f].max_default_likelihood,
                              FacilityCaps(f))

----------------------------------------------------------------------------
(* C6 *)

\* C6: a facility's effective_max_default_likelihood is the minimum of the
\* facility's and the bank's value when both are set, the one that is set
\* when only one is, and unset when neither is.
C6_EffectiveCapIsMinimum ==
    Normalized =>
        \A f \in DOMAIN facilities :
            LET own == facilities[f].max_default_likelihood
                parent == banks[facilities[f].bank].max_default_likelihood
                effective == effective_max_default_likelihood(f)
            IN  IF own # None /\ parent # None
                THEN /\ effective # None
                     /\ CapValue(effective)
                            = Min({CapValue(own), CapValue(parent)})
                ELSE IF own # None THEN effective = own
                ELSE IF parent # None THEN effective = parent
                ELSE effective = None

----------------------------------------------------------------------------
(* C7 *)

\* C7: when neither the facility nor its bank has a max default likelihood,
\* validate_loan returns True for every loan whose state is not banned and
\* whose amount is at most the facility's amount.
C7_NoCapPassesEveryLikelihood ==
    pc = "assign" =>
        \A f \in DOMAIN facilities : \A l \in DOMAIN loans :
            ( /\ effective_max_default_likelihood(f) = None
              /\ loans[l].state \notin Elements(effective_banned_states(f))
              /\ loans[l].amount <= facilities[f].amount )
            => \A interp \in Interpreters :
                   validate_loan(loans[l], f, interp) = "True"

----------------------------------------------------------------------------
(* C8 *)

\* C8: processing one more covenant never makes validate_loan return True
\* for a loan and a facility for which it returned False before.
C8_CovenantNeverLoosens ==
    [][(pc = "normalize_covenants" /\ pc' # "KeyError") =>
        \A f \in DOMAIN facilities :
        \A loan \in LoanRows \cup NormalizeLoanRows :
        \A interp \in {"2", "3"} :
            ~ ( /\ validate_loan(loan, f, interp) = "False"
                /\ validate_loan(loan, f, interp)' = "True" )]_vars

----------------------------------------------------------------------------
(* C9 *)

\* The facilities that pass validate_loan for loan i as it is processed
Eligible ==
    {f \in DOMAIN facilities : validate_loan(loans[i], f, py) = "True"}

\* Neither facility f nor its bank carries a restriction
Unrestricted(f) ==
    /\ facilities[f].banned_states = <<>>
    /\ facilities[f].max_default_likelihood = None
    /\ banks[facilities[f].bank].banned_states = <<>>
    /\ banks[facilities[f].bank].max_default_likelihood = None

\* The loan is left unassigned exactly when no facility is eligible, and goes
\* to the eligible facility when there is exactly one.
C9_Rule ==
    AtDecision =>
        /\ selected_facility = 0 <=> Eligible = {}
        /\ \A f \in DOMAIN facilities : Eligible = {f} => selected_facility = f

\* The example: an unrestricted facility with enough funds, whose siblings
\* all ban the loan's state, gets the loan.
C9_Example ==
    AtDecision =>
        \A f \in DOMAIN facilities :
            ( /\ Unrestricted(f)
              /\ loans[i].amount <= facilities[f].amount
              /\ \E g \in DOMAIN facilities : g # f
              /\ \A g \in DOMAIN facilities : g # f =>
                    /\ facilities[g].bank = facilities[f].bank
                    /\ loans[i].state \in Elements(facilities[g].banned_states) )
            => selected_facility = f

\* C9: a loan is left unassigned if and only if no facility passes
\* validate_loan for it; when exactly one facility is eligible the loan is
\* assigned to it, as when a bank without restrictions has a facility that
\* bans the loan's state and a sibling facility with enough funds.
C9_UnassignedIffNoneEligible == C9_Rule /\ C9_Example

----------------------------------------------------------------------------
(* C10 *)

\* C10: loans are processed one at a time in input order, and each loan is
\* validated against facility amounts already reduced by every loan assigned
\* before it: while loan i is scanned no later loan is assigned, every
\* facility's amount is its initial amount minus the amounts of the earlier
\* loans assigned to it, and the facility selected for loan i has at least
\* the loan's amount left.
C10_ValidatedAgainstReducedAmounts ==
    pc = "assign" =>
        /\ \A l \in DOMAIN loans : l >= i => loans[l].assigned_facility = 0
        /\ \A f \in DOMAIN facilities :
               facilities[f].amount =
                   initial_amount[f] - SumAmountsOf(AssignedBefore(i, f))
        /\ selected_facility # 0 =>
               loans[i].amount <= facilities[selected_facility].amount

\* A facility of amount 10 has accepted a loan of 6 and has been passed over
\* for the next loan, of 5, for lack of funds alone.
C10_Witness ==
    /\ pc = "assign"
    /\ i = 2
    /\ j >= 2
    /\ initial_amount[1] = 10
    /\ loans[1].amount = 6
    /\ loans[1].assigned_facility = 1
    /\ facilities[1].amount = 4
    /\ loans[2].amount = 5
    /\ validate_loan_NoFundsCheck(loans[2], 1, "2") = "True"
    /\ validate_loan(loans[2], 1, "2") = "False"
    /\ selected_facility # 1

----------------------------------------------------------------------------
(* C11 *)

\* C11: in every state, for every loan, assigned_facility is set if and only
\* if expected_yield is set.
C11_FacilityIffYield ==
    \A l \in DOMAIN loans :
        loans[l].assigned_facility # 0 <=> loans[l].expected_yield # None

\* The run is over with one loan assigned, its yield being the falsy 0.0, and
\* another loan left unassigned.
C11_Witness ==
    /\ pc = "done"
    /\ \E l \in DOMAIN loans :
          /\ loans[l].assigned_facility # 0
          /\ loans[l].expected_yield = Some(0)
    /\ \E l \in DOMAIN loans :
          /\ loans[l].assigned_facility = 0
          /\ loans[l].expected_yield = None

----------------------------------------------------------------------------
(* C12 *)

\* The number of times loan l occurs in the list ls
Occurrences(ls, l) == Cardinality({k \in 1..Len(ls) : ls[k] = l})

\* C12: in every state each loan is in the assigned_loans of at most one
\* facility and at most once in it, loan.assigned_facility is F exactly when
\* the loan is in F.assigned_loans, and an assigned_facility that is set
\* never changes.
C12_OneFacilityPerLoan ==
    /\ [](\A l \in DOMAIN loans :
            /\ \A f \in DOMAIN facilities :
                 /\ Occurrences(facilities[f].assigned_loans, l) <= 1
                 /\ loans[l].assigned_facility = f
                      <=> l \in Elements(facilities[f].assigned_loans)
            /\ Cardinality({f \in DOMAIN facilities :
                   l \in Elements(facilities[f].assigned_loans)}) <= 1)
    /\ [][\A l \in DOMAIN loans :
            loans[l].assigned_facility # 0 =>
                loans'[l].assigned_facility = loans[l].assigned_facility]_vars

\* Two loans have been assigned, to two different facilities.
C12_Witness ==
    /\ Len(loans) = 2
    /\ Len(facilities) = 2
    /\ loans[1].assigned_facility # 0
    /\ loans[2].assigned_facility # 0
    /\ loans[1].assigned_facility # loans[2].assigned_facility

----------------------------------------------------------------------------
(* C13 *)

\* C13: for every facility after normalize_data, the values in
\* effective_banned_states are exactly the states banned on the facility or
\* on its bank.
C13_EffectiveBannedIsUnion ==
    Normalized =>
        \A f \in DOMAIN facilities :
            \A state \in {"NY", "CA", "TX"} :
                state \in Elements(effective_banned_states(f))
                    <=> \/ \E k \in DOMAIN facilities[f].banned_states :
                              facilities[f].banned_states[k] = state
                        \/ \E k \in DOMAIN banks[facilities[f].bank].banned_states :
                              banks[facilities[f].bank].banned_states[k] = state

\* A facility that bans one state itself and inherits another from its bank.
C13_Witness ==
    /\ Normalized
    /\ \E f \in DOMAIN facilities :
          /\ facilities[f].banned_states = <<"NY">>
          /\ banks[facilities[f].bank].banned_states = <<"CA">>
          /\ Elements(effective_banned_states(f)) = {"NY", "CA"}

----------------------------------------------------------------------------
(* C14 *)

\* C14: once normalize_data has succeeded, make_assignments raises no error:
\* it is processing a loan, or has returned with every loan either assigned
\* or left unassigned.
C14_AssignmentsNeverRaise ==
    Normalized =>
        /\ pc # "TypeError"
        /\ pc = "done" =>
              \A l \in DOMAIN loans :
                  loans[l].assigned_facility \in {0} \cup DOMAIN facilities

----------------------------------------------------------------------------
(* C15 *)

\* Some foreign key of the dataset matches no loaded record
BadReference ==
    \/ \E f \in DOMAIN facilities : facilities[f].bank_id \notin DOMAIN banks
    \/ \E c \in DOMAIN covenants : covenants[c].bank_id \notin DOMAIN banks
    \/ \E c \in DOMAIN covenants :
          /\ covenants[c].facility_id # 0
          /\ covenants[c].facility_id \notin DOMAIN facilities

\* C15: when a facility's bank_id, a covenant's bank_id or a covenant's
\* non-empty facility_id matches no loaded record, normalize_data does not
\* complete (it is still running, or has raised) and no loan is assigned;
\* and normalize_data raises for no other dataset, so a covenant with an
\* empty facility_id is no error.
C15_BadReferenceStopsTheRun ==
    /\ BadReference =>
          /\ ~Normalized
          /\ pc # "KeyError" => ENABLED Next
          /\ \A l \in DOMAIN loans :
                /\ loans[l].assigned_facility = 0
                /\ loans[l].expected_yield = None
          /\ \A f \in DOMAIN facilities : facilities[f].assigned_loans = <<>>
    /\ pc = "KeyError" => BadReference

\* normalize_data has applied a covenant without facility id and has raised
\* at the next one, whose facility id names no facility.
C15_Witness ==
    /\ pc = "KeyError"
    /\ i = 2
    /\ Len(covenants) = 2
    /\ covenants[1].facility_id = 0
    /\ covenants[1].bank = covenants[1].bank_id
    /\ covenants[2].facility_id # 0
    /\ covenants[2].facility_id \notin DOMAIN facilities

----------------------------------------------------------------------------
(* C16 *)

\* (1 - p) * r_loan * A - p * A - r_facility * A, in ten-thousandths, for
\* p and the rates in hundredths
YieldFormula(p, r_loan, A, r_facility) ==
    (100 - p) * r_loan * A - 100 * p * A - 100 * r_facility * A

\* C16: for every assigned loan, the stored expected_yield is
\* (1 - p) * r_loan * A - p * A - r_facility * A with the interest rate of
\* the facility stored in assigned_facility.
C16_StoredYieldIsOfStoredFacility ==
    \A l \in DOMAIN loans :
        loans[l].assigned_facility # 0 =>
            loans[l].expected_yield =
                Some(YieldFormula(loans[l].default_likelihood,
                                  loans[l].interest_rate, loans[l].amount,
                                  facilities[loans[l].assigned_facility].interest_rate))

\* A loan is assigned to the second of two facilities that were both
\* eligible for it and differ in their rate, so in the yield they give.
C16_Witness ==
    /\ Len(facilities) = 2
    /\ facilities[1].interest_rate # facilities[2].interest_rate
    /\ loans[1].assigned_facility = 2
    /\ loans[1].expected_yield # None
    /\ loans[1].state \notin Elements(effective_banned_states(1))
    /\ effective_max_default_likelihood(1) # None

----------------------------------------------------------------------------
(* C17 *)

\* Entity after differs from entity before in banned_states and
\* max_default_likelihood at most
OnlyRestrictionsChange(before, after) ==
    after = [before EXCEPT !.banned_states = after.banned_states,
                           !.max_default_likelihood = after.max_default_likelihood]

\* C17: a covenant with a facility id changes only that facility's
\* banned_states and max_default_likelihood, and no bank and no other
\* facility; a covenant without one changes only its bank's two fields, no
\* facility's own fields, reaches the effective banned states of every
\* facility of that bank and leaves the effective constraints of the
\* facilities of other banks as they were.
C17_CovenantTouchesOnlyItsTarget ==
    [][(pc = "normalize_covenants" /\ pc' # "KeyError") =>
        LET c == covenants[i]
        IN  IF c.facility_id # 0
            THEN /\ banks' = banks
                 /\ \A f \in DOMAIN facilities : f # c.facility_id =>
                        facilities'[f] = facilities[f]
                 /\ OnlyRestrictionsChange(facilities[c.facility_id],
                                           facilities'[c.facility_id])
            ELSE /\ facilities' = facilities
                 /\ \A b \in DOMAIN banks : b # c.bank_id => banks'[b] = banks[b]
                 /\ OnlyRestrictionsChange(banks[c.bank_id], banks'[c.bank_id])
                 /\ \A f \in DOMAIN facilities :
                        IF facilities[f].bank = c.bank_id
                        THEN c.banned_state # "" =>
                                 c.banned_state
                                     \in Elements(effective_banned_states(f)')
                        ELSE /\ effective_banned_states(f)'
                                    = effective_banned_states(f)
                             /\ effective_max_default_likelihood(f)'
                                    = effective_max_default_likelihood(f)]_vars

\* A ban on bank 1 and a cap on facility 2, which is of bank 2: the ban has
\* reached facility 1 alone and the cap facility 2 alone.
C17_Witness ==
    /\ Normalized
    /\ Len(facilities) = 2
    /\ facilities[1].bank = 1
    /\ facilities[2].bank = 2
    /\ banks[1].banned_states = <<"NY">>
    /\ banks[1].max_default_likelihood = None
    /\ banks[2].banned_states = <<>>
    /\ banks[2].max_default_likelihood = None
    /\ facilities[1].max_default_likelihood = None
    /\ facilities[2].max_default_likelihood # None
    /\ effective_banned_states(1) = <<"NY">>
    /\ effective_banned_states(2) = <<>>

----------------------------------------------------------------------------
(* C18 *)

\* The data of the run: everything but the interpreter and the position and
\* locals of Loan.assign
DataUnchanged ==
    UNCHANGED <<banks, facilities, covenants, loans, bank_table, facility_table>>

\* C18: a step of Loan.assign for loan i changes at most that loan's
\* assigned_facility and expected_yield and the amount and assigned_loans of
\* the facility it is assigned to; banks, covenants, every other loan and
\* facility and all banned_states / max_default_likelihood stay as they
\* were; an iteration of the scan (validate_loan, calculate_yield_for_loan)
\* changes no data, and neither does a step that leaves the loan unassigned.
C18_AssignTouchesOnlyLoanAndChosenFacility ==
    [][pc = "assign" =>
        LET chosen == loans'[i].assigned_facility
        IN  /\ UNCHANGED <<banks, covenants, bank_table, facility_table>>
            /\ DOMAIN loans' = DOMAIN loans
            /\ DOMAIN facilities' = DOMAIN facilities
            /\ \A l \in DOMAIN loans : l # i => loans'[l] = loans[l]
            /\ loans'[i] = [loans[i] EXCEPT
                               !.assigned_facility = loans'[i].assigned_facility,
                               !.expected_yield = loans'[i].expected_yield]
            /\ \A f \in DOMAIN facilities :
                   IF f = chosen /\ IsAssignment
                   THEN facilities'[f] = [facilities[f] EXCEPT
                            !.amount = facilities'[f].amount,
                            !.assigned_loans = facilities'[f].assigned_loans]
                   ELSE facilities'[f] = facilities[f]
            /\ j <= Len(facilities) => DataUnchanged
            /\ chosen = 0 => DataUnchanged]_vars

\* The second loan was assigned to facility 2 while the first stays with
\* facility 1, whose list and amount show the first loan alone.
C18_Witness ==
    /\ pc = "done"
    /\ Len(facilities) = 2
    /\ Len(loans) = 2
    /\ loans[1].assigned_facility = 1
    /\ loans[2].assigned_facility = 2
    /\ facilities[1].assigned_loans = <<1>>
    /\ facilities[2].assigned_loans = <<2>>
    /\ facilities[1].amount = initial_amount[1] - loans[1].amount

----------------------------------------------------------------------------
(* C19 *)

\* The eligible facilities whose yield for loan i no eligible facility exceeds
TiedBest ==
    {f \in Eligible :
        \A g \in Eligible : calculate_yield_for_loan(loans[i], g)
                                <= calculate_yield_for_loan(loans[i], f)}

\* Several eligible facilities share the greatest yield, and it is not zero
TieAtNonzeroBest ==
    /\ AtDecision
    /\ Cardinality(TiedBest) >= 2
    /\ \A f \in TiedBest : calculate_yield_for_loan(loans[i], f) # 0

\* C19: when several eligible facilities give the loan the same nonzero
\* yield and it is the greatest among the eligible ones, the loan is assigned
\* to the first of them in input order.
C19_TieGoesToFirst ==
    [][TieAtNonzeroBest => loans'[i].assigned_facility = Min(TiedBest)]_vars

\* The same where no eligible facility yields exactly zero
C19_TieGoesToFirstWithoutZeroYield ==
    [][(/\ TieAtNonzeroBest
        /\ \A f \in Eligible : calculate_yield_for_loan(loans[i], f) # 0)
       => loans'[i].assigned_facility = Min(TiedBest)]_vars

\* A tie of facilities 1 and 2 at the greatest yield went to facility 1
C19_TieReached ==
    /\ pc = "done"
    /\ Len(facilities) = 3
    /\ facilities[1].interest_rate = facilities[2].interest_rate
    /\ facilities[3].interest_rate > facilities[1].interest_rate
    /\ facilities[1].bank = facilities[3].bank
    /\ loans[1].assigned_facility = 1
    /\ loans[1].expected_yield # None
    /\ loans[1].expected_yield[1] > 0

====
